---- MODULE Spec2Model ----
(***************************************************************************)
(* Seq2SeqModel (models/seq2seq.py): graph construction for the train and  *)
(* inference modes, the session calls train / eval / inference, and the    *)
(* checkpoint calls save / restore.                                        *)
(*                                                                         *)
(* Tensors are sequences: a [batch, time] tensor is a sequence of rows.    *)
(* Real-valued vectors are represented by integers modulo HiddenMod, and   *)
(* a probability by a reduced fraction <<numerator, denominator>>; the     *)
(* -log of a probability is represented by the probability itself, so a    *)
(* sum of cross entropies is the product of the probabilities.             *)
(* keep_prob and dropout_rate are percentages (100 stands for 1.0).        *)
(***************************************************************************)
EXTENDS Integers, Sequences, FiniteSets, TLC

VARIABLES config, phase, error, graph, params, global_step,
          global_epoch_step, pc, last, completed, files, fresh, saved

vars == <<config, phase, error, graph, params, global_step,
          global_epoch_step, pc, last, completed, files, fresh, saved>>

-----------------------------------------------------------------------------
(* Bounds of the model *)

MaxBatch == 2
MaxWidth == 2
MaxDepth == 3
MaxHorizon == 2
MaxStep == 2
MaxSave == 2
HiddenMod == 5
LogitMod == 5
ParamMod == 2

(* Program constants *)

PAD == 0
GO == 1
EOS == 2
decoder_vocab_size == 4
Full == 100

-----------------------------------------------------------------------------
(* Arithmetic helpers *)

Max(a, b) == IF a >= b THEN a ELSE b

Min(a, b) == IF a <= b THEN a ELSE b

RECURSIVE Gcd(_, _)
Gcd(a, b) == IF b = 0 THEN a ELSE Gcd(b, a % b)

Frac(n, d) == LET g == Gcd(n, d) IN <<n \div g, d \div g>>

FracMul(p, q) == Frac(p[1] * q[1], p[2] * q[2])

One == <<1, 1>>

RECURSIVE Exp2(_)
Exp2(n) == IF n = 0 THEN 1 ELSE 2 * Exp2(n - 1)

RECURSIVE SeqSum(_)
SeqSum(s) == IF s = <<>> THEN 0 ELSE Head(s) + SeqSum(Tail(s))

RECURSIVE SeqMax(_)
SeqMax(s) == IF Len(s) = 1 THEN s[1] ELSE Max(Head(s), SeqMax(Tail(s)))

RECURSIVE Flatten(_)
Flatten(m) == IF m = <<>> THEN <<>> ELSE Head(m) \o Flatten(Tail(m))

-----------------------------------------------------------------------------
(* Configuration *)

Configs ==
    [mode : {"train", "inference"},
     encoder_depth : (0 - 1)..MaxDepth,
     decoder_depth : (0 - 1)..MaxDepth,
     decoder_max_time_steps : 0..MaxHorizon,
     dropout_rate : {0, 50},
     use_dropout : BOOLEAN,
     use_bidirectional : BOOLEAN,
     optimizer_type : {"adam", "Adam", "sgd"}]

\* The configurations the session calls are explored on: positive depths and
\* horizon, the implemented optimizer; the train graph never reads
\* decoder_max_time_steps, so one value stands for all.
RunConfigs ==
    {c \in Configs :
        /\ c.encoder_depth >= 1 /\ c.decoder_depth >= 1
        /\ c.decoder_max_time_steps >= 1
        /\ c.optimizer_type = "adam"
        /\ c.mode = "train" => c.decoder_max_time_steps = MaxHorizon}

-----------------------------------------------------------------------------
(* Graph construction: Seq2SeqModel.__init__ *)

\* A layer state of the encoder's final state: the cell that produced it.
Layer(scope, index) == [scope |-> scope, index |-> index]

NoGraph ==
    [encoder_last_state |-> <<>>, decoder_initial_state |-> <<>>,
     upper_cell |-> "none", decoder_cell |-> 0, steps |-> 0,
     consumed |-> 0, train_op |-> FALSE]

\* cells = [build_single_cell() for _ in range(depth)]: the number of cells.
Cells(depth) == Max(depth, 0)

\* build_encoder_cell(depth): a falsy depth (None, 0) falls back to encoder_depth;
\* the result is the number of cells handed to MultiRNNCell.
build_encoder_cell(c, depth) ==
    Cells(IF depth # 0 THEN depth ELSE c.encoder_depth)

build_decoder_cell(c, depth) ==
    Cells(IF depth # 0 THEN depth ELSE c.decoder_depth)

\* The cell stacked on the bidirectional layer.
upper_cell(c) ==
    IF c.encoder_depth > 2 THEN "multi"
    ELSE IF c.encoder_depth = 2 THEN "single"
    ELSE "none"

\* A variant that stacks encoder_depth cells on the bidirectional layer.
upper_cells_FullDepth(c) ==
    IF upper_cell(c) = "multi" THEN build_encoder_cell(c, c.encoder_depth)
    ELSE IF upper_cell(c) = "single" THEN 1
    ELSE 0

upper_cells(c) ==
    IF upper_cell(c) = "multi" THEN build_encoder_cell(c, c.encoder_depth - 1)
    ELSE IF upper_cell(c) = "single" THEN 1
    ELSE 0

\* The structure of upper_last_state: a tuple for a MultiRNNCell.
upper_last_state(c) == [i \in 1..upper_cells(c) |-> Layer("upper", i)]

\* The structure of encoder_last_state.
encoder_last_state(c) ==
    IF c.use_bidirectional
    THEN IF upper_cell(c) # "none"
         THEN <<Layer("fw", 1)>> \o
              (IF c.encoder_depth = 2 THEN <<upper_last_state(c)[1]>>
               ELSE upper_last_state(c))
         ELSE <<Layer("fw", 1)>>
    ELSE [i \in 1..build_encoder_cell(c, 0) |-> Layer("encoder", i)]

\* build_encoder: MultiRNNCell refuses an empty list of cells.
build_encoder(c) ==
    IF c.use_bidirectional
    THEN IF upper_cell(c) = "multi" /\ upper_cells(c) = 0
         THEN "ValueError: MultiRNNCell needs at least one cell"
         ELSE "ok"
    ELSE IF build_encoder_cell(c, 0) = 0
         THEN "ValueError: MultiRNNCell needs at least one cell"
         ELSE "ok"

\* MultiRNNCell.call on a state tuple: cell i reads state[i].
CellCallError(depth, state) ==
    IF Len(state) < depth THEN "IndexError: tuple index out of range" ELSE "ok"

\* dynamic_rnn: the state a cell returns has the structure of the state it got.
DynamicRnnError(depth, state) ==
    IF CellCallError(depth, state) # "ok" THEN CellCallError(depth, state)
    ELSE IF Len(state) # depth
         THEN "ValueError: the two structures do not have the same number of elements"
         ELSE "ok"

\* The number of decoder steps the inference loop unrolls.
LoopSteps(c) == Max(c.decoder_max_time_steps, 0)

build_decoder(c) ==
    LET decoder_initial_state == encoder_last_state(c)
        decoder_cell == build_decoder_cell(c, 0)
    IN  IF decoder_cell = 0
        THEN "ValueError: MultiRNNCell needs at least one cell"
        ELSE IF c.mode = "train"
        THEN DynamicRnnError(decoder_cell, decoder_initial_state)
        ELSE IF LoopSteps(c) > 0 /\
                CellCallError(decoder_cell, decoder_initial_state) # "ok"
        THEN CellCallError(decoder_cell, decoder_initial_state)
        ELSE IF LoopSteps(c) = 0
        THEN "IndexError: stack of an empty list"
        ELSE "ok"

\* str.lower on the optimizer names a configuration takes.
lower(name) == IF name = "Adam" THEN "adam" ELSE name

\* build_optimizer: the body runs in train mode only; self.optimizer is set
\* for adam alone, and apply_gradients reads it.
build_optimizer(c) ==
    IF c.mode = "train" /\ lower(c.optimizer_type) # "adam"
    THEN "AttributeError: optimizer"
    ELSE "ok"

\* __init__: the first build step that raises ends the construction.
ConstructError(c) ==
    IF build_encoder(c) # "ok" THEN build_encoder(c)
    ELSE IF build_decoder(c) # "ok" THEN build_decoder(c)
    ELSE build_optimizer(c)

BuiltGraph(c) ==
    [encoder_last_state |-> encoder_last_state(c),
     decoder_initial_state |-> encoder_last_state(c),
     upper_cell |-> upper_cell(c),
     decoder_cell |-> build_decoder_cell(c, 0),
     steps |-> IF c.mode = "inference" THEN LoopSteps(c) ELSE 0,
     consumed |-> Min(build_decoder_cell(c, 0), Len(encoder_last_state(c))),
     train_op |-> c.mode = "train"]

\* Trainable variables, by scope.
ZeroParams == [encoder |-> 0, decoder |-> 0, decoder_logits |-> 0]

-----------------------------------------------------------------------------
(* Cells and recurrences *)

\* embedding_lookup: the vector of a token.
Embed(w, token) == (w + token) % HiddenMod

\* tf.layers.dense without bias, on one vector.
Dense(w, x) == ((w + 1) * x) % HiddenMod

\* GRUCell: the new hidden vector from the input and the previous one.
GRUCell(w, x, h) == (w + x + 2 * h + 1) % HiddenMod

\* nn.dropout: x / keep_prob * floor(keep_prob + uniform); a unit is dropped
\* only when the draw falls below 1 - keep_prob.
Dropout(x, keep_prob, dropped) ==
    IF dropped THEN 0 ELSE ((x * Full) \div keep_prob) % HiddenMod

\* The dropout masks a run can draw: with keep_prob = 1 nothing is dropped.
\* A mask is the set of cell indices whose output is dropped in this run.
Masks(c, keep_prob) ==
    IF c.use_dropout /\ keep_prob < Full THEN SUBSET {1} ELSE {{}}

\* build_single_cell: a GRU cell, wrapped by DropoutWrapper when use_dropout.
build_single_cell(c, w, keep_prob, mask, i, x, h) ==
    LET new_h == GRUCell(w, x, h)
    IN  [output |-> IF c.use_dropout THEN Dropout(new_h, keep_prob, i \in mask)
                    ELSE new_h,
         state |-> new_h]

\* MultiRNNCell.call: cell i reads state[i] and feeds cell i + 1.
RECURSIVE MultiRNNCell(_, _, _, _, _, _, _, _, _)
MultiRNNCell(c, w, keep_prob, mask, i, depth, cur_inp, state, new_states) ==
    IF i > depth THEN [output |-> cur_inp, state |-> new_states]
    ELSE LET r == build_single_cell(c, w, keep_prob, mask, i, cur_inp, state[i])
         IN  MultiRNNCell(c, w, keep_prob, mask, i + 1, depth, r.output, state,
                          Append(new_states, r.state))

ZeroState(depth) == [i \in 1..depth |-> 0]

\* dynamic_rnn over one example: past sequence_length the output is zero and
\* the state is copied through.
RECURSIVE dynamic_rnn(_, _, _, _, _, _, _, _, _, _)
dynamic_rnn(c, w, keep_prob, mask, depth, inputs, sequence_length, state, t, outputs) ==
    IF t > Len(inputs) THEN [outputs |-> outputs, state |-> state]
    ELSE IF t <= sequence_length
    THEN LET r == MultiRNNCell(c, w, keep_prob, mask, 1, depth, inputs[t], state, <<>>)
         IN  dynamic_rnn(c, w, keep_prob, mask, depth, inputs, sequence_length,
                         r.state, t + 1, Append(outputs, r.output))
    ELSE dynamic_rnn(c, w, keep_prob, mask, depth, inputs, sequence_length,
                     state, t + 1, Append(outputs, 0))

\* array_ops.reverse_sequence: the first seq_length elements reversed.
reverse_sequence(xs, seq_length) ==
    [t \in 1..Len(xs) |-> IF t <= seq_length THEN xs[seq_length + 1 - t] ELSE xs[t]]

-----------------------------------------------------------------------------
(* Encoder, on one example *)

encoder_inputs_embedded_dense(p, row) ==
    [t \in 1..Len(row) |-> Dense(p.encoder, Embed(p.encoder, row[t]))]

RunEncoder(c, p, keep_prob, mask, row, length) ==
    LET inputs == encoder_inputs_embedded_dense(p, row)
    IN  IF c.use_bidirectional
        THEN LET fw == dynamic_rnn(c, p.encoder, keep_prob, mask, 1, inputs, length,
                                   ZeroState(1), 1, <<>>)
                 bw == dynamic_rnn(c, p.encoder + 1, keep_prob, mask, 1,
                                   reverse_sequence(inputs, length), length,
                                   ZeroState(1), 1, <<>>)
                 bw_outputs == reverse_sequence(bw.outputs, length)
                 bi_last_state == <<fw.state[1], bw.state[1]>>
                 bi_outputs == [t \in 1..Len(inputs) |->
                                   Dense(p.encoder, fw.outputs[t] + 2 * bw_outputs[t])]
                 upper == dynamic_rnn(c, p.encoder, keep_prob, mask, upper_cells(c),
                                      bi_outputs, length, ZeroState(upper_cells(c)),
                                      1, <<>>)
             IN  IF upper_cell(c) # "none"
                 THEN [outputs |-> upper.outputs,
                       state |-> <<bi_last_state[1]>> \o
                                 (IF c.encoder_depth = 2 THEN <<upper.state[1]>>
                                  ELSE upper.state)]
                 ELSE [outputs |-> bi_outputs, state |-> <<bi_last_state[1]>>]
        ELSE dynamic_rnn(c, p.encoder, keep_prob, mask, build_encoder_cell(c, 0),
                         inputs, length, ZeroState(build_encoder_cell(c, 0)), 1, <<>>)

-----------------------------------------------------------------------------
(* Vocabulary projection *)

\* tf.layers.dense(name='decoder_logits'): one logit per vocabulary index;
\* index k is element k + 1.
decoder_logits(p, output) ==
    [k \in 1..decoder_vocab_size |-> (p.decoder_logits + output * k + k) % LogitMod]

\* softmax: probabilities over a common denominator.
softmax(logits) ==
    LET e == [k \in 1..Len(logits) |-> Exp2(logits[k])]
    IN  [k \in 1..Len(logits) |-> <<e[k], SeqSum(e)>>]

\* reduce_max of the probabilities.
reduce_max(probabilities) ==
    <<SeqMax([k \in 1..Len(probabilities) |-> probabilities[k][1]]),
      probabilities[1][2]>>

\* argmax: the smallest vocabulary index that carries the maximum.
argmax(probabilities) ==
    (CHOOSE k \in 1..Len(probabilities) :
        /\ probabilities[k] = reduce_max(probabilities)
        /\ \A j \in 1..(k - 1) : probabilities[j] # reduce_max(probabilities)) - 1

\* sparse softmax cross entropy of one position: -log of the target's probability.
crossent(logits, target) ==
    LET q == softmax(logits)[target + 1] IN Frac(q[1], q[2])

-----------------------------------------------------------------------------
(* Placeholders of the train graph: build_placeholders *)

Rows(m) == Len(m)

Width(m) == Len(m[1])

\* batch_size = tf.shape(encoder_inputs)[0]
batch_size(feed) == Rows(feed.encoder_inputs)

decoder_start_token(feed) == [i \in 1..batch_size(feed) |-> <<GO>>]

decoder_end_token(feed) == [i \in 1..batch_size(feed) |-> <<EOS>>]

\* tf.concat along the last axis needs the same number of rows on both sides.
ConcatOk(a, b) == Rows(a) = Rows(b)

Concat(a, b) == [i \in 1..Rows(a) |-> a[i] \o b[i]]

decoder_inputs_train(feed) == Concat(decoder_start_token(feed), feed.decoder_inputs)

decoder_inputs_train_length(feed) ==
    [i \in 1..Len(feed.decoder_inputs_length) |-> feed.decoder_inputs_length[i] + 1]

\* A variant that puts the end token in front of the sequence.
decoder_targets_train_EosFirst(feed) ==
    Concat(decoder_end_token(feed), feed.decoder_inputs)

decoder_targets_train(feed) == Concat(feed.decoder_inputs, decoder_end_token(feed))

decoder_targets_train_length(feed) ==
    [i \in 1..Len(feed.decoder_inputs_length) |-> feed.decoder_inputs_length[i] + 1]

-----------------------------------------------------------------------------
(* What a session run rejects *)

\* The encoder ops: dynamic_rnn asserts sequence_length has shape [batch_size];
\* the bidirectional encoder's reverse_sequence rejects a length past the row.
EncoderRunError(c, feed) ==
    IF Len(feed.encoder_inputs_length) # batch_size(feed)
    THEN "InvalidArgumentError: sequence_length shape"
    ELSE IF c.use_bidirectional /\
            \E i \in 1..batch_size(feed) :
                feed.encoder_inputs_length[i] > Width(feed.encoder_inputs)
    THEN "InvalidArgumentError: reverse_sequence length"
    ELSE "ok"

\* decoder_masks: [batch_size, reduce_max(decoder_targets_train_length)]
decoder_masks(feed) ==
    LET maxlen == SeqMax(decoder_targets_train_length(feed))
    IN  [i \in 1..Len(feed.decoder_inputs_length) |->
            [t \in 1..maxlen |->
                IF t <= decoder_inputs_train_length(feed)[i] THEN 1 ELSE 0]]

\* sequence_loss multiplies the flattened cross entropies by the flattened
\* weights: the two sizes must be equal, or one of them 1 (broadcast).
BroadcastOk(n, m) == n = m \/ n = 1 \/ m = 1

DecoderRunError(feed) ==
    IF ~ConcatOk(decoder_start_token(feed), feed.decoder_inputs)
    THEN "InvalidArgumentError: concat dimensions"
    ELSE IF Len(feed.decoder_inputs_length) # batch_size(feed)
    THEN "InvalidArgumentError: sequence_length shape"
    ELSE IF ~BroadcastOk(Len(Flatten(decoder_targets_train(feed))),
                         Len(Flatten(decoder_masks(feed))))
    THEN "InvalidArgumentError: incompatible shapes"
    ELSE "ok"

LossRunError(c, feed) ==
    IF EncoderRunError(c, feed) # "ok" THEN EncoderRunError(c, feed)
    ELSE DecoderRunError(feed)

-----------------------------------------------------------------------------
(* The train graph of build_decoder, evaluated on a feed *)

\* decoder_logits of example i: one logits vector per step of decoder_inputs_train.
TrainLogits(c, p, keep_prob, mask, feed, i) ==
    LET enc == RunEncoder(c, p, keep_prob, mask, feed.encoder_inputs[i],
                          feed.encoder_inputs_length[i])
        decoder_initial_state == enc.state
        row == decoder_inputs_train(feed)[i]
        decoder_inputs_embedded == [t \in 1..Len(row) |-> Embed(p.decoder, row[t])]
        dec == dynamic_rnn(c, p.decoder, keep_prob, mask, build_decoder_cell(c, 0),
                           decoder_inputs_embedded,
                           decoder_inputs_train_length(feed)[i],
                           decoder_initial_state, 1, <<>>)
    IN  [t \in 1..Len(row) |-> decoder_logits(p, dec.outputs[t])]

\* The flattened per-position cross entropies against decoder_targets_train.
CrossentFlat(c, p, keep_prob, mask, feed) ==
    Flatten([i \in 1..batch_size(feed) |->
        LET logits == TrainLogits(c, p, keep_prob, mask, feed, i)
        IN  [t \in 1..Len(logits) |->
                crossent(logits[t], decoder_targets_train(feed)[i][t])]])

\* crossent *= reshape(weights, [-1]), with broadcasting; a position of weight 0
\* contributes nothing.
Weighted(ce, w) ==
    [k \in 1..Max(Len(ce), Len(w)) |->
        IF w[IF Len(w) = 1 THEN 1 ELSE k] = 1
        THEN ce[IF Len(ce) = 1 THEN 1 ELSE k] ELSE One]

RECURSIVE Product(_, _, _)
Product(s, from, to) ==
    IF from > to THEN One ELSE FracMul(s[from], Product(s, from + 1, to))

\* sequence_loss: the sum of the weighted cross entropies, example by example,
\* and the total weight that divides it.
sequence_loss(c, p, keep_prob, mask, feed) ==
    LET weights == Flatten(decoder_masks(feed))
        weighted == Weighted(CrossentFlat(c, p, keep_prob, mask, feed), weights)
        per == Len(weighted) \div batch_size(feed)
    IN  [contributions |-> [i \in 1..batch_size(feed) |->
                               Product(weighted, (i - 1) * per + 1, i * per)],
         total_size |-> SeqSum(weights)]

NoLoss == [contributions |-> <<>>, total_size |-> 0]

-----------------------------------------------------------------------------
(* The inference graph of build_decoder, evaluated on a feed *)

\* A variant of the decoder loop that stops once EOS has been predicted.
RECURSIVE DecoderLoop_StopAtEos(_, _, _, _, _, _, _, _)
DecoderLoop_StopAtEos(c, p, keep_prob, mask, n, input, state, trace) ==
    IF n = 0 \/ (trace # <<>> /\ trace[Len(trace)].predicts = EOS) THEN trace
    ELSE LET r == MultiRNNCell(c, p.decoder, keep_prob, mask, 1, build_decoder_cell(c, 0),
                               input, state, <<>>)
             logits == decoder_logits(p, r.output)
             probabilities == softmax(logits)
             predicts == argmax(probabilities)
             scores == reduce_max(probabilities)
         IN  DecoderLoop_StopAtEos(c, p, keep_prob, mask, n - 1,
                         Embed(p.decoder, predicts), r.state,
                         Append(trace, [input |-> input, state |-> state,
                                        output |-> r.output, new_state |-> r.state,
                                        logits |-> logits,
                                        probabilities |-> probabilities,
                                        predicts |-> predicts, scores |-> scores]))

\* A variant of the decoder loop that feeds the GO embedding at every step.
RECURSIVE DecoderLoop_FeedGo(_, _, _, _, _, _, _, _)
DecoderLoop_FeedGo(c, p, keep_prob, mask, n, input, state, trace) ==
    IF n = 0 THEN trace
    ELSE LET r == MultiRNNCell(c, p.decoder, keep_prob, mask, 1, build_decoder_cell(c, 0),
                               input, state, <<>>)
             logits == decoder_logits(p, r.output)
             probabilities == softmax(logits)
             predicts == argmax(probabilities)
             scores == reduce_max(probabilities)
         IN  DecoderLoop_FeedGo(c, p, keep_prob, mask, n - 1, Embed(p.decoder, GO), r.state,
                         Append(trace, [input |-> input, state |-> state,
                                        output |-> r.output, new_state |-> r.state,
                                        logits |-> logits,
                                        probabilities |-> probabilities,
                                        predicts |-> predicts, scores |-> scores]))

\* The decoder loop on one example: every step calls the decoder cell, projects
\* to logits, and feeds the embedded argmax to the next step.
RECURSIVE DecoderLoop(_, _, _, _, _, _, _, _)
DecoderLoop(c, p, keep_prob, mask, n, input, state, trace) ==
    IF n = 0 THEN trace
    ELSE LET r == MultiRNNCell(c, p.decoder, keep_prob, mask, 1, build_decoder_cell(c, 0),
                               input, state, <<>>)
             logits == decoder_logits(p, r.output)
             probabilities == softmax(logits)
             predicts == argmax(probabilities)
             scores == reduce_max(probabilities)
         IN  DecoderLoop(c, p, keep_prob, mask, n - 1, Embed(p.decoder, predicts), r.state,
                         Append(trace, [input |-> input, state |-> state,
                                        output |-> r.output, new_state |-> r.state,
                                        logits |-> logits,
                                        probabilities |-> probabilities,
                                        predicts |-> predicts, scores |-> scores]))

\* self.decoder_last_state is assigned the returned state at every step; the
\* assignment of the last step stays.
decoder_last_state(trace) == trace[Len(trace)].new_state

InferenceTrace(c, p, keep_prob, mask, feed, i) ==
    LET enc == RunEncoder(c, p, keep_prob, mask, feed.encoder_inputs[i],
                          feed.encoder_inputs_length[i])
        decoder_initial_tokens_embedded == Embed(p.decoder, GO)
    IN  DecoderLoop(c, p, keep_prob, mask, LoopSteps(c), decoder_initial_tokens_embedded,
                    enc.state, <<>>)

-----------------------------------------------------------------------------
(* The feeds a caller passes *)

Token == decoder_vocab_size - 1

\* A padded row: `length` real tokens, then PAD up to the width.
PaddedRow(width, length) == [t \in 1..width |-> IF t <= length THEN Token ELSE PAD]

Feed(B, T, enc_len, W, dec_len) ==
    [encoder_inputs |-> [i \in 1..B |-> PaddedRow(T, enc_len[i])],
     encoder_inputs_length |-> enc_len,
     decoder_inputs |-> [i \in 1..B |-> PaddedRow(W, dec_len[i])],
     decoder_inputs_length |-> dec_len]

Ones(B) == [i \in 1..B |-> 1]

\* The lengths of a batch of B examples, the longest example first (no
\* operation depends on the order of the examples); a length may pass the
\* width of the row.
Lengths(B, width) ==
    {len \in [1..B -> 0..(width + 1)] : \A i \in 1..(B - 1) : len[i] >= len[i + 1]}

\* Decoder sequences of every width and length.
DecoderFeeds ==
    UNION {UNION {{Feed(B, 1, Ones(B), W, dec_len) : dec_len \in Lengths(B, W)} :
                  W \in 0..MaxWidth} : B \in 1..MaxBatch}

\* Encoder sequences of every width and length.
EncoderFeeds ==
    UNION {UNION {{Feed(B, T, enc_len, 1, Ones(B)) : enc_len \in Lengths(B, T)} :
                  T \in 1..MaxWidth} : B \in 1..MaxBatch}

\* One tensor with a row more than the others.
RaggedFeeds ==
    UNION {{[Feed(B, 1, Ones(B), 1, Ones(B)) EXCEPT !.encoder_inputs_length = Ones(B + 1)],
            [Feed(B, 1, Ones(B), 1, Ones(B)) EXCEPT
                !.decoder_inputs = [i \in 1..(B + 1) |-> PaddedRow(1, 1)]],
            [Feed(B, 1, Ones(B), 1, Ones(B)) EXCEPT !.decoder_inputs_length = Ones(B + 1)]} :
           B \in 1..MaxBatch}

TrainFeeds == DecoderFeeds \cup EncoderFeeds \cup RaggedFeeds

\* inference takes the encoder tensors only.
InferenceFeeds ==
    {[f EXCEPT !.decoder_inputs = <<>>, !.decoder_inputs_length = <<>>] :
        f \in EncoderFeeds \cup
              {g \in RaggedFeeds : Len(g.encoder_inputs_length) # Rows(g.encoder_inputs)}}

-----------------------------------------------------------------------------
(* State *)

NoFeed == [encoder_inputs |-> <<>>, encoder_inputs_length |-> <<>>,
           decoder_inputs |-> <<>>, decoder_inputs_length |-> <<>>]

NoCall ==
    [op |-> "none", status |-> "none", error |-> "none", feed |-> NoFeed,
     keep_prob |-> 0, mask |-> {}, params |-> ZeroParams, step |-> 0,
     epoch_step |-> 0, loss |-> NoLoss,
     decoder_inputs_train |-> <<>>, decoder_inputs_train_length |-> <<>>,
     decoder_targets_train |-> <<>>, decoder_targets_train_length |-> <<>>,
     decoder_masks |-> <<>>, decoder_logits_time |-> 0,
     decoder_predicts |-> <<>>, decoder_scores |-> <<>>, trace |-> <<>>,
     decoder_last_state |-> <<>>]

\* A call on a model of the other mode raises AttributeError while it builds
\* its feed and fetch lists, before any tensor is read.
WrongMode(op) ==
    [NoCall EXCEPT !.op = op, !.status = "error", !.error = "AttributeError",
                   !.params = params, !.step = global_step,
                   !.epoch_step = global_epoch_step]

\* A session run that raised: nothing but the error reaches the caller.
Raised(op, feed, keep_prob, err) ==
    [NoCall EXCEPT !.op = op, !.status = "error", !.error = err, !.feed = feed,
                   !.keep_prob = keep_prob, !.params = params,
                   !.step = global_step, !.epoch_step = global_epoch_step]

\* The outputs of a run of the loss on a feed.
LossOutputs(op, c, p, keep_prob, mask, feed) ==
    [NoCall EXCEPT
        !.op = op, !.status = "ok", !.feed = feed, !.keep_prob = keep_prob,
        !.mask = mask, !.params = p, !.step = global_step,
        !.epoch_step = global_epoch_step,
        !.loss = sequence_loss(c, p, keep_prob, mask, feed),
        !.decoder_inputs_train = decoder_inputs_train(feed),
        !.decoder_inputs_train_length = decoder_inputs_train_length(feed),
        !.decoder_targets_train = decoder_targets_train(feed),
        !.decoder_targets_train_length = decoder_targets_train_length(feed),
        !.decoder_masks = decoder_masks(feed),
        !.decoder_logits_time = Len(TrainLogits(c, p, keep_prob, mask, feed, 1))]

\* The outputs of a run of decoder_predicts and decoder_scores on a feed.
InferenceOutputs(c, p, keep_prob, mask, feed) ==
    LET trace == [i \in 1..batch_size(feed) |->
                     InferenceTrace(c, p, keep_prob, mask, feed, i)]
    IN  [NoCall EXCEPT
            !.op = "inference", !.status = "ok", !.feed = feed,
            !.keep_prob = keep_prob, !.mask = mask, !.params = p,
            !.step = global_step, !.epoch_step = global_epoch_step,
            !.trace = trace,
            !.decoder_predicts =
                [i \in 1..Len(trace) |->
                    [t \in 1..Len(trace[i]) |-> trace[i][t].predicts]],
            !.decoder_scores =
                [i \in 1..Len(trace) |->
                    [t \in 1..Len(trace[i]) |-> trace[i][t].scores]],
            !.decoder_last_state =
                [i \in 1..Len(trace) |-> decoder_last_state(trace[i])]]

\* The second model, of identical config, before it is constructed.
NoFresh == [phase |-> "new", var_list |-> "None", variables |-> <<>>]

\* What the last save call was made on (nothing before the first one).
NoSave == [count |-> 0, name |-> <<>>, params |-> ZeroParams, global_step |-> 0,
           global_epoch_step |-> 0]

InitState ==
    /\ phase = "new"
    /\ error = "none"
    /\ graph = NoGraph
    /\ params = ZeroParams
    /\ global_step = 0
    /\ global_epoch_step = 0
    /\ pc = "idle"
    /\ last = NoCall
    /\ completed = 0
    /\ files = {}
    /\ fresh = NoFresh
    /\ saved = NoSave

Init == config \in RunConfigs /\ InitState

InitConstruct == config \in Configs /\ InitState

-----------------------------------------------------------------------------
(* Operations *)

\* Seq2SeqModel(config, mode, logger); the variables get their initial values.
Construct ==
    /\ phase = "new"
    /\ error' = ConstructError(config)
    /\ IF ConstructError(config) = "ok"
       THEN /\ phase' = "built"
            /\ graph' = BuiltGraph(config)
            /\ \E w \in 0..(ParamMod - 1) :
                  params' = [encoder |-> w, decoder |-> w, decoder_logits |-> w]
       ELSE /\ phase' = "failed"
            /\ UNCHANGED <<graph, params>>
    /\ UNCHANGED <<config, global_step, global_epoch_step, pc, last, completed>>
    /\ UNCHANGED <<files, fresh, saved>>

\* A variant that applies the update without the step counter.
apply_gradients_NoStep(p, step, update) ==
    [params |-> [encoder |-> (p.encoder + update) % ParamMod,
                 decoder |-> (p.decoder + update) % ParamMod,
                 decoder_logits |-> (p.decoder_logits + update) % ParamMod],
     global_step |-> step]

\* optimizer.apply_gradients(..., global_step=self.global_step): every trainable
\* variable moves by its update, and the step counter advances by one.
apply_gradients(p, step, update) ==
    [params |-> [encoder |-> (p.encoder + update) % ParamMod,
                 decoder |-> (p.decoder + update) % ParamMod,
                 decoder_logits |-> (p.decoder_logits + update) % ParamMod],
     global_step |-> step + 1]

\* The keep_prob each call feeds.
TrainKeepProb(c) == Full - c.dropout_rate

\* A variant that feeds eval the keep_prob of train.
EvalKeepProb_AsTrain(c) == Full - c.dropout_rate

EvalKeepProb(c) == Full

InferenceKeepProb(c) == Full

\* train: the loss and the train op in one session run.
Train ==
    /\ phase = "built" /\ pc = "idle" /\ global_step < MaxStep
    /\ pc' = "returned"
    /\ LET keep_prob == TrainKeepProb(config)
       IN  IF config.mode # "train"
           THEN /\ last' = WrongMode("train")
                /\ UNCHANGED <<params, global_step, completed>>
           ELSE \E feed \in TrainFeeds :
                IF LossRunError(config, feed) # "ok"
                THEN /\ last' = Raised("train", feed, keep_prob,
                                       LossRunError(config, feed))
                     /\ UNCHANGED <<params, global_step, completed>>
                ELSE /\ \E mask \in Masks(config, keep_prob) :
                           last' = LossOutputs("train", config, params, keep_prob,
                                               mask, feed)
                     /\ \E update \in 0..(ParamMod - 1) :
                           /\ params' = apply_gradients(params, global_step, update).params
                           /\ global_step' =
                                 apply_gradients(params, global_step, update).global_step
                     /\ completed' = completed + 1
    /\ UNCHANGED <<config, phase, error, graph, global_epoch_step>>
    /\ UNCHANGED <<files, fresh, saved>>

\* eval: the loss alone, with keep_prob 1.
Eval ==
    /\ phase = "built" /\ pc = "idle"
    /\ pc' = "returned"
    /\ LET keep_prob == EvalKeepProb(config)
       IN  IF config.mode # "train"
           THEN last' = WrongMode("eval")
           ELSE \E feed \in TrainFeeds :
                IF LossRunError(config, feed) # "ok"
                THEN last' = Raised("eval", feed, keep_prob, LossRunError(config, feed))
                ELSE \E mask \in Masks(config, keep_prob) :
                        last' = LossOutputs("eval", config, params, keep_prob, mask, feed)
    /\ UNCHANGED <<config, phase, error, graph, params, global_step,
                   global_epoch_step, completed>>
    /\ UNCHANGED <<files, fresh, saved>>

\* inference: decoder_predicts and decoder_scores, with keep_prob 1.
Inference ==
    /\ phase = "built" /\ pc = "idle"
    /\ pc' = "returned"
    /\ LET keep_prob == InferenceKeepProb(config)
       IN  IF config.mode # "inference"
           THEN last' = WrongMode("inference")
           ELSE \E feed \in InferenceFeeds :
                IF EncoderRunError(config, feed) # "ok"
                THEN last' = Raised("inference", feed, keep_prob,
                                    EncoderRunError(config, feed))
                ELSE \E mask \in Masks(config, keep_prob) :
                        last' = InferenceOutputs(config, params, keep_prob, mask, feed)
    /\ UNCHANGED <<config, phase, error, graph, params, global_step,
                   global_epoch_step, completed>>
    /\ UNCHANGED <<files, fresh, saved>>

\* The caller takes the outputs (or the exception) and goes on.
Return ==
    /\ pc = "returned"
    /\ pc' = "idle"
    /\ last' = NoCall
    /\ UNCHANGED <<config, phase, error, graph, params, global_step,
                   global_epoch_step, completed>>
    /\ UNCHANGED <<files, fresh, saved>>

Next ==
    \/ Construct
    \/ Train
    \/ Eval
    \/ Inference
    \/ Return

Spec == Init /\ [][Next]_vars

\* The construction alone, on every configuration.
NextConstruct == Construct

SpecConstruct == InitConstruct /\ [][NextConstruct]_vars

-----------------------------------------------------------------------------
(* Checkpoints: save and restore *)

\* The save_path the caller passes to save and to restore.
Path == "model.ckpt"

\* A variable that no initializer or restore has assigned in its session.
Uninitialized == 0 - 1

\* tf.trainable_variables(), by scope.
TrainableVariables == {"encoder", "decoder", "decoder_logits"}

\* tf.global_variables(): the trainable ones, the two counters of init_config
\* and, in train mode, the slots of the optimizer.
GlobalVariables(c) ==
    TrainableVariables \cup {"global_step", "global_epoch_step"}
        \cup (IF c.mode = "train" THEN {"optimizer"} ELSE {})

\* The var_list arguments a caller passes: None, or the trainable variables.
VarLists == {"None", "trainable"}

\* tf.train.Saver(var_list): None stands for every saveable variable.
Saver(c, var_list) ==
    IF var_list = "None" THEN GlobalVariables(c) ELSE TrainableVariables

\* The value of a variable of the model in its session; the optimizer's slots
\* are represented by the number of updates they have seen.
VariableValue(name) ==
    CASE name = "encoder" -> params.encoder
      [] name = "decoder" -> params.decoder
      [] name = "decoder_logits" -> params.decoder_logits
      [] name = "global_step" -> global_step
      [] name = "global_epoch_step" -> global_epoch_step
      [] name = "optimizer" -> global_step

\* saver.save names the file save_path when global_step is None (here <<>>),
\* and save_path-<global_step> when it has a value (here <<value>>).
CheckpointName(save_path, step) ==
    IF step = <<>> THEN <<save_path>> ELSE <<save_path, "-">> \o step

\* The global_step arguments a caller passes to save: None, or the model's
\* global_step tensor, which the saver evaluates.
StepArguments == {"None", "self.global_step"}

\* save: the variables of the saver, written to the file the saver names.
Save(var_list, step_argument) ==
    /\ phase = "built" /\ pc = "idle" /\ saved.count < MaxSave
    /\ pc' = "returned"
    /\ LET name == CheckpointName(Path, IF step_argument = "None" THEN <<>>
                                        ELSE <<global_step>>)
           contents == [n \in Saver(config, var_list) |-> VariableValue(n)]
       IN  /\ files' = {f \in files : f.name # name}
                           \cup {[name |-> name, contents |-> contents]}
           /\ saved' = [count |-> saved.count + 1, name |-> name, params |-> params,
                        global_step |-> global_step,
                        global_epoch_step |-> global_epoch_step]
    /\ last' = [NoCall EXCEPT !.op = "save", !.status = "ok", !.params = params,
                              !.step = global_step, !.epoch_step = global_epoch_step]
    /\ UNCHANGED <<config, phase, error, graph, params, global_step,
                   global_epoch_step, completed, fresh>>

\* The outcome of saver.restore(sess, save_path) on a model whose saver holds
\* `names`: the file must exist and hold every one of the names.
RestoreError(names, save_path) ==
    IF ~ \E f \in files : f.name = CheckpointName(save_path, <<>>)
    THEN "ValueError: not a valid checkpoint"
    ELSE IF \E f \in files :
               /\ f.name = CheckpointName(save_path, <<>>)
               /\ ~ (names \subseteq DOMAIN f.contents)
    THEN "NotFoundError: key not found in checkpoint"
    ELSE "ok"

\* The variables of a model constructed in a new session after restore: the
\* saver's variables take the file's values, the others are left unassigned.
Restored(c, names, save_path) ==
    LET f == CHOOSE g \in files : g.name = CheckpointName(save_path, <<>>)
    IN  [n \in GlobalVariables(c) |->
            IF n \in names THEN f.contents[n] ELSE Uninitialized]

\* restore, called on a second model freshly constructed from the same config
\* in a session of its own.
Restore(var_list) ==
    /\ phase = "built" /\ pc = "idle" /\ saved.count >= 1 /\ fresh.phase = "new"
    /\ pc' = "returned"
    /\ LET err == RestoreError(Saver(config, var_list), Path)
       IN  IF err # "ok"
           THEN /\ fresh' = [phase |-> "failed", var_list |-> var_list,
                             variables |-> [n \in GlobalVariables(config) |->
                                               Uninitialized]]
                /\ last' = [NoCall EXCEPT !.op = "restore", !.status = "error",
                                          !.error = err, !.params = params,
                                          !.step = global_step,
                                          !.epoch_step = global_epoch_step]
           ELSE /\ fresh' = [phase |-> "restored", var_list |-> var_list,
                             variables |-> Restored(config, Saver(config, var_list),
                                                    Path)]
                /\ last' = [NoCall EXCEPT !.op = "restore", !.status = "ok",
                                          !.params = params, !.step = global_step,
                                          !.epoch_step = global_epoch_step]
    /\ UNCHANGED <<config, phase, error, graph, params, global_step,
                   global_epoch_step, completed, files, saved>>

\* The configurations the checkpoint calls are explored on: train mode, one
\* layer, no dropout.
CheckpointConfigs ==
    {c \in RunConfigs :
        /\ c.mode = "train"
        /\ c.encoder_depth = 1 /\ c.decoder_depth = 1
        /\ ~ c.use_dropout /\ c.dropout_rate = 0}

\* The batches the caller trains on between checkpoint calls.
CheckpointFeeds ==
    {f \in DecoderFeeds :
        Rows(f.decoder_inputs) = MaxBatch /\ Width(f.decoder_inputs) = MaxWidth}

InitCheckpoint == config \in CheckpointConfigs /\ InitState

TrainCheckpoint == Train /\ last'.feed \in CheckpointFeeds

SaveCheckpoint ==
    \E var_list \in VarLists : \E step_argument \in StepArguments :
        Save(var_list, step_argument)

RestoreCheckpoint == \E var_list \in VarLists : Restore(var_list)

NextCheckpoint ==
    \/ Construct
    \/ TrainCheckpoint
    \/ SaveCheckpoint
    \/ RestoreCheckpoint
    \/ Return

SpecCheckpoint == InitCheckpoint /\ [][NextCheckpoint]_vars

-----------------------------------------------------------------------------
(* Properties *)

Returned(op) == pc = "returned" /\ last.op = op

LossReturned == pc = "returned" /\ last.op \in {"train", "eval"} /\ last.status = "ok"

\* The batch is well formed: one batch size, and no length past its row.
WellFormed(feed) ==
    /\ Len(feed.encoder_inputs_length) = Rows(feed.encoder_inputs)
    /\ Rows(feed.decoder_inputs) = Rows(feed.encoder_inputs)
    /\ Len(feed.decoder_inputs_length) = Rows(feed.encoder_inputs)
    /\ \A i \in 1..Rows(feed.encoder_inputs) :
          /\ feed.encoder_inputs_length[i] <= Len(feed.encoder_inputs[i])
          /\ feed.decoder_inputs_length[i] <= Len(feed.decoder_inputs[i])

\* C1: in every accepted train/eval run and for every example i,
\* decoder_inputs_train[i] is GO followed by decoder_inputs[i],
\* decoder_targets_train[i] is decoder_inputs[i] followed by EOS, both are one
\* element longer than decoder_inputs[i], and both train lengths are
\* decoder_inputs_length[i] + 1.
C1_TeacherForcingShift ==
    LossReturned =>
        /\ Len(last.decoder_inputs_train) = Rows(last.feed.decoder_inputs)
        /\ Len(last.decoder_targets_train) = Rows(last.feed.decoder_inputs)
        /\ \A i \in 1..Rows(last.feed.decoder_inputs) :
              /\ last.decoder_inputs_train[i] = <<GO>> \o last.feed.decoder_inputs[i]
              /\ last.decoder_targets_train[i] = last.feed.decoder_inputs[i] \o <<EOS>>
              /\ Len(last.decoder_inputs_train[i]) = Len(last.feed.decoder_inputs[i]) + 1
              /\ Len(last.decoder_targets_train[i]) = Len(last.feed.decoder_inputs[i]) + 1
              /\ last.decoder_inputs_train_length[i] =
                    last.feed.decoder_inputs_length[i] + 1
              /\ last.decoder_targets_train_length[i] =
                    last.feed.decoder_inputs_length[i] + 1

\* A train run of two examples of different lengths has returned.
C1_Witness ==
    /\ LossReturned /\ last.op = "train"
    /\ last.feed.decoder_inputs_length = <<2, 1>>
    /\ last.decoder_targets_train = <<<<Token, Token, EOS>>, <<Token, PAD, EOS>>>>

\* The feed with one more padding column on every decoder row.
AppendPadding(feed) ==
    [feed EXCEPT !.decoder_inputs =
        [i \in 1..Rows(feed.decoder_inputs) |-> Append(feed.decoder_inputs[i], PAD)]]

\* C2: for every accepted train/eval batch, the batch with one more padding
\* column (decoder_inputs_length unchanged) is accepted too, and every
\* example's weighted contribution to the loss is the same.
C2_PaddingInvariantLoss ==
    LossReturned =>
        /\ LossRunError(config, AppendPadding(last.feed)) = "ok"
        /\ sequence_loss(config, last.params, last.keep_prob, last.mask,
                         AppendPadding(last.feed)).contributions
             = last.loss.contributions

\* C3: train accepts every well-formed batch, the time dimensions of
\* decoder_logits, decoder_targets_train and decoder_masks being equal.
C3_WellFormedBatchAccepted ==
    (Returned("train") /\ config.mode = "train" /\ WellFormed(last.feed)) =>
        /\ last.status = "ok"
        /\ last.decoder_logits_time = Width(last.decoder_targets_train)
        /\ Width(last.decoder_masks) = Width(last.decoder_targets_train)

\* C4: an inference run returns, per example, exactly decoder_max_time_steps
\* predictions and as many scores, every prediction an index of the decoder
\* vocabulary and every score in [0, 1].
C4_InferenceFullHorizon ==
    (Returned("inference") /\ last.status = "ok") =>
        /\ Len(last.decoder_predicts) = Rows(last.feed.encoder_inputs)
        /\ Len(last.decoder_scores) = Rows(last.feed.encoder_inputs)
        /\ \A i \in 1..Rows(last.feed.encoder_inputs) :
              /\ Len(last.decoder_predicts[i]) = config.decoder_max_time_steps
              /\ Len(last.decoder_scores[i]) = config.decoder_max_time_steps
              /\ \A t \in 1..Len(last.decoder_predicts[i]) :
                    /\ last.decoder_predicts[i][t] \in 0..(decoder_vocab_size - 1)
                    /\ 0 <= last.decoder_scores[i][t][1]
                    /\ last.decoder_scores[i][t][1] <= last.decoder_scores[i][t][2]

\* An inference run has returned in which EOS was predicted before the last step.
C4_Witness ==
    /\ Returned("inference") /\ last.status = "ok"
    /\ \E i \in 1..Len(last.decoder_predicts) :
          /\ Len(last.decoder_predicts[i]) = MaxHorizon
          /\ last.decoder_predicts[i][1] = EOS

\* C5: the decoder's initial state is the encoder's final state, and a
\* construction whose encoder final state does not have exactly decoder_depth
\* layer states fails, in train mode and in inference mode.
C5_StateMismatchIsFatal ==
    /\ phase = "built" => graph.decoder_initial_state = graph.encoder_last_state
    /\ (phase # "new" /\ Len(encoder_last_state(config)) # config.decoder_depth)
          => phase = "failed"

\* C6: a bidirectional encoder of depth d >= 1 ends in exactly d layer states,
\* the forward cell's first and the d - 1 states of the upper stack after it;
\* a unidirectional encoder ends in exactly d layer states.
C6_EncoderFinalState ==
    phase = "built" =>
        LET state == graph.encoder_last_state
            d == config.encoder_depth
        IN  /\ (config.use_bidirectional /\ d >= 1) =>
                  /\ Len(state) = d
                  /\ state[1] = Layer("fw", 1)
                  /\ \A i \in 2..d : state[i] = Layer("upper", i - 1)
            /\ ~config.use_bidirectional =>
                  /\ Len(state) = d
                  /\ \A i \in 1..d : state[i] = Layer("encoder", i)

\* A bidirectional encoder with a multi-layer upper stack has been built.
C6_Witness ==
    /\ phase = "built" /\ config.use_bidirectional /\ config.encoder_depth = MaxDepth
    /\ Len(graph.encoder_last_state) = MaxDepth
    /\ graph.upper_cell = "multi"

\* C7: no model is constructed from a configuration whose encoder_depth or
\* decoder_depth is zero or negative.
C7_DepthValidation ==
    (phase # "new" /\ (config.encoder_depth <= 0 \/ config.decoder_depth <= 0))
        => phase = "failed"

\* C8: global_step is the number of train calls that completed; a completed
\* train call advances it by exactly one, and any other call, a failed train
\* call included, leaves it and the parameters as they were.
C8_StepCountsCompletedTrains ==
    /\ global_step = completed
    /\ pc = "returned" =>
          IF last.op = "train" /\ last.status = "ok"
          THEN global_step = last.step + 1
          ELSE global_step = last.step /\ params = last.params

\* A train call has failed after another one completed.
C8_Witness ==
    /\ Returned("train") /\ last.status = "error" /\ config.mode = "train"
    /\ global_step = 1 /\ completed = 1

\* C9: eval and inference leave the parameters, global_step and
\* global_epoch_step unchanged, and their session runs have keep probability 1
\* and no unit dropped, so that the loss of an eval is the only loss an eval
\* of that batch can return; a train run has keep probability 1 - dropout_rate.
SessionRun(op) == Returned(op) /\ last.error # "AttributeError"

C9_EvalReadOnlyDeterministic ==
    /\ (Returned("eval") \/ Returned("inference")) =>
          /\ params = last.params
          /\ global_step = last.step
          /\ global_epoch_step = last.epoch_step
    /\ (SessionRun("eval") \/ SessionRun("inference")) =>
          /\ last.keep_prob = Full
          /\ last.mask = {}
          /\ (last.op = "eval" /\ last.status = "ok") =>
                \A mask \in Masks(config, last.keep_prob) :
                    sequence_loss(config, params, last.keep_prob, mask, last.feed)
                        = last.loss
    /\ SessionRun("train") => last.keep_prob = Full - config.dropout_rate

\* An eval has returned on a trained model that is configured with dropout.
C9_Witness ==
    /\ Returned("eval") /\ last.status = "ok"
    /\ config.use_dropout /\ config.dropout_rate > 0
    /\ global_step > 0
    /\ Rows(last.feed.decoder_inputs) = MaxBatch

\* C10: a train call on a batch with inconsistent batch sizes, or with a
\* length past the width of its row, fails and leaves the parameters and
\* global_step as they were.
C10_MalformedBatchRejected ==
    (Returned("train") /\ config.mode = "train" /\ ~WellFormed(last.feed)) =>
        /\ last.status = "error"
        /\ params = last.params
        /\ global_step = last.step

\* C12: a configuration whose optimizer_type is not adam (in any letter case)
\* never yields a constructed model: its construction fails, whatever the mode,
\* also when the depths and the horizon are positive.
C12_UnsupportedOptimizerRejected ==
    (/\ phase # "new"
     /\ lower(config.optimizer_type) # "adam"
     /\ config.encoder_depth >= 1 /\ config.decoder_depth >= 1
     /\ config.decoder_max_time_steps >= 1) => phase = "failed"

\* C14: in every accepted train/eval batch whose masks are as wide as its
\* targets, for every example i the weights are 1 on the first
\* decoder_inputs_length[i] + 1 targets and 0 after them, these targets are the
\* example's decoder_inputs_length[i] tokens, and the last of them is EOS.
C14_LastWeightedTargetIsEos ==
    (/\ LossReturned /\ WellFormed(last.feed)
     /\ Width(last.decoder_masks) = Width(last.decoder_targets_train)) =>
        \A i \in 1..Rows(last.feed.decoder_inputs) :
            LET n == last.feed.decoder_inputs_length[i]
            IN  /\ \A t \in 1..Width(last.decoder_masks) :
                      last.decoder_masks[i][t] = (IF t <= n + 1 THEN 1 ELSE 0)
                /\ \A t \in 1..n :
                      last.decoder_targets_train[i][t] = last.feed.decoder_inputs[i][t]
                /\ last.decoder_targets_train[i][n + 1] = EOS

\* C13: in every inference run and for every example, step 1 takes the GO
\* embedding and the encoder's final state; every later step takes the embedding
\* of the previous prediction and the state the previous step returned; every
\* step's output, state, logits and probabilities come from the one set of
\* decoder cell and projection parameters of the call; the prediction is the
\* first index of the largest probability and the score is that probability;
\* decoder_last_state is the state the last step returned.
C13_GreedyChain ==
    (Returned("inference") /\ last.status = "ok") =>
        /\ Len(last.trace) = Rows(last.feed.encoder_inputs)
        /\ \A i \in 1..Len(last.trace) :
              LET steps == last.trace[i]
              IN  /\ steps[1].input = Embed(last.params.decoder, GO)
                  /\ steps[1].state =
                        RunEncoder(config, last.params, last.keep_prob, last.mask,
                                   last.feed.encoder_inputs[i],
                                   last.feed.encoder_inputs_length[i]).state
                  /\ \A t \in 2..Len(steps) :
                        /\ steps[t].input =
                              Embed(last.params.decoder, steps[t - 1].predicts)
                        /\ steps[t].state = steps[t - 1].new_state
                  /\ \A t \in 1..Len(steps) :
                        LET r == MultiRNNCell(config, last.params.decoder, last.keep_prob,
                                              last.mask, 1, graph.decoder_cell,
                                              steps[t].input, steps[t].state, <<>>)
                            q == steps[t].probabilities
                        IN  /\ steps[t].output = r.output
                            /\ steps[t].new_state = r.state
                            /\ steps[t].logits = decoder_logits(last.params, steps[t].output)
                            /\ q = softmax(steps[t].logits)
                            /\ steps[t].predicts \in 0..(Len(q) - 1)
                            /\ \A k \in 1..Len(q) : q[k][1] <= q[steps[t].predicts + 1][1]
                            /\ \A k \in 1..steps[t].predicts :
                                  q[k][1] < q[steps[t].predicts + 1][1]
                            /\ steps[t].scores = q[steps[t].predicts + 1]
                            /\ last.decoder_predicts[i][t] = steps[t].predicts
                            /\ last.decoder_scores[i][t] = steps[t].scores
                  /\ last.decoder_last_state[i] = steps[Len(steps)].new_state

\* An inference run over the whole horizon has returned in which the first
\* prediction is not GO and the second step's input and state differ from the
\* first step's.
C13_Witness ==
    /\ Returned("inference") /\ last.status = "ok"
    /\ \E i \in 1..Len(last.trace) :
          /\ Len(last.trace[i]) = MaxHorizon
          /\ last.trace[i][1].predicts # GO
          /\ last.trace[i][2].input # last.trace[i][1].input
          /\ last.trace[i][2].state # last.trace[i][1].state
          /\ last.trace[i][2].predicts # last.trace[i][1].predicts

\* The trainable variables of the second model after restore.
FreshParams ==
    [encoder |-> fresh.variables["encoder"], decoder |-> fresh.variables["decoder"],
     decoder_logits |-> fresh.variables["decoder_logits"]]

\* C11: restore(path) with the default var_list, on a fresh model of the same
\* config, after any save(path, ...): the call succeeds, the fresh model has the
\* parameter values and step counter the saved model had at its last save, and
\* its eval loss on every accepted batch is the saved model's.
C11_CheckpointRoundTrip ==
    (Returned("restore") /\ fresh.var_list = "None") =>
        /\ last.status = "ok"
        /\ FreshParams = saved.params
        /\ fresh.variables["global_step"] = saved.global_step
        /\ \A feed \in CheckpointFeeds :
              LossRunError(config, feed) = "ok" =>
                  sequence_loss(config, FreshParams, EvalKeepProb(config), {}, feed)
                    = sequence_loss(config, saved.params, EvalKeepProb(config), {}, feed)

====
